---- MODULE Spec2Model ----
(***************************************************************************)
(* A model of the commit log of Schachte/GoCommit: the store (a buffered,  *)
(* length-prefixed append-only file), the index (a memory-mapped table of  *)
(* 12-byte entries), the segment pairing them, the log that rolls          *)
(* segments, and the gRPC server in front of the log.                      *)
(*                                                                         *)
(* Files are sequences of bytes; every encoding (big-endian integers, the  *)
(* protobuf record) is computed byte by byte and decoded again on read.    *)
(* The Log type itself (NewLog, Append, Read, Close) is not among the      *)
(* sources; it is modelled from its specification, as are the authorizer   *)
(* and the ErrOffsetOutOfRange error type.                                 *)
(***************************************************************************)
EXTENDS Integers, Sequences, FiniteSets, TLC

VARIABLES
    config,         \* log.Config: the Segment options of this log
    segments,       \* Log.segments: the open segments, ascending base offset
    activeSegment,  \* Log.activeSegment: index into segments
    opened,         \* TRUE between NewLog and Log.Close
    restarts,       \* number of NewLog calls on the existing directory
    attempts,       \* number of CommitLog.Append calls made so far
    hist,           \* history: the records of the successful appends, in order
    snap,           \* history: the read results observed by the last Close
    lastOp,         \* history: the call that made the last step, and its result
    cstream,        \* the ConsumeStream call: request, context, what was sent
    pstream,        \* the ProduceStream call
    st,             \* a store used on its own (store_test.go), with its history
    ix,             \* an index used on its own, with its history
    appenders       \* concurrent Log.Append calls, each at its position

vars == <<config, segments, activeSegment, opened, restarts, attempts, hist,
          snap, lastOp, cstream, pstream, st, ix, appenders>>

(* The log and the server's calls; the store and the index used on their    *)
(* own; the concurrent appenders.                                           *)
serverVars == <<segments, activeSegment, opened, restarts, attempts, hist,
                snap, lastOp, cstream, pstream>>

----------------------------------------------------------------------------
(* Bounds of the model *)

MaxAppends == 4
MaxRestarts == 1
MaxStreamStart == 1

MaxStoreOps == 3

MaxIndexOps == 4

NumAppenders == 2

(* The payloads a producer sends (Record.Value), as byte sequences. *)
Values == {<< >>, <<7>>}
(* The payloads appended to a store used on its own. *)
Payloads == {<< >>, <<7>>, <<104, 105, 33>>}
(* The entries (relative offset, position) written to an index used on its *)
(* own.                                                                     *)
Entries == { <<0, 0>>, <<1, 19>>, <<300, 70000>> }
(* The offsets a caller may put in a record before appending it. *)
CallerOffsets == {0, 9}
(* Segment configurations: store-driven roll, index-driven roll, and an     *)
(* index capacity that is not a multiple of the entry width.                *)
Configs ==
    { [MaxStoreBytes |-> 20, MaxIndexBytes |-> 36, InitialOffset |-> 0],
      [MaxStoreBytes |-> 64, MaxIndexBytes |-> 24, InitialOffset |-> 2],
      [MaxStoreBytes |-> 30, MaxIndexBytes |-> 30, InitialOffset |-> 0] }

----------------------------------------------------------------------------
(* Errors *)

Nil == "nil"
EOF == "EOF"
ErrClosed == "ErrClosed"
ErrProto == "ErrProto"
ErrOffsetOutOfRange == "ErrOffsetOutOfRange"
PermissionDenied == "PermissionDenied"
ErrSend == "ErrSend"
ErrRecv == "ErrRecv"

NoRecord == [none |-> TRUE]

----------------------------------------------------------------------------
(* Byte encodings *)

(* Let(x, K): K applied to the value of x, with x evaluated once. *)
Let(x, K(_)) == CHOOSE y \in { K(v) : v \in {x} } : TRUE

RECURSIVE Pow(_, _)
Pow(b, e) == IF e = 0 THEN 1 ELSE b * Pow(b, e - 1)

Zeros(n) == [i \in 1..n |-> 0]

(* enc.PutUint32 / enc.PutUint64 / binary.Write: n as w big-endian bytes.   *)
(* Values of the model stay below 2^24, so the high bytes are zero.         *)
PutUint(n, w) ==
    [i \in 1..w |-> IF w - i >= 3 THEN 0 ELSE (n \div Pow(256, w - i)) % 256]

(* enc.Uint32 / enc.Uint64: the big-endian value of the bytes b.            *)
Uint(b) ==
    LET value[n \in 0..Len(b)] == IF n = 0 THEN 0 ELSE value[n - 1] * 256 + b[n]
    IN value[Len(b)]

(* A protobuf varint: 7 bits a byte, least significant group first.         *)
RECURSIVE Varint(_)
Varint(n) ==
    IF n < 128 THEN <<n>> ELSE <<128 + (n % 128)>> \o Varint(n \div 128)

(* Decodes the varint at the head of b: [ok, value, rest].                  *)
RECURSIVE ReadVarint(_)
ReadVarint(b) ==
    IF Len(b) = 0 THEN [ok |-> FALSE, value |-> 0, rest |-> << >>]
    ELSE IF b[1] < 128 THEN [ok |-> TRUE, value |-> b[1], rest |-> Tail(b)]
    ELSE LET More(r) ==
                 [ok |-> r.ok, value |-> (b[1] - 128) + 128 * r.value, rest |-> r.rest]
         IN Let(ReadVarint(Tail(b)), More)

(* proto.Marshal of Record{Value (field 1, bytes), Offset (field 2, uint64)}: *)
(* proto3 leaves out a field that holds its zero value.                       *)
Marshal(record) ==
    (IF Len(record.value) > 0
        THEN <<10>> \o Varint(Len(record.value)) \o record.value ELSE << >>)
    \o (IF record.offset > 0 THEN <<16>> \o Varint(record.offset) ELSE << >>)

(* proto.Unmarshal into record: fields in any order, the last one wins. *)
RECURSIVE UnmarshalInto(_, _)
UnmarshalInto(b, record) ==
    LET Field(tag, v) ==
            IF ~v.ok THEN [err |-> ErrProto, record |-> record]
            ELSE IF tag = 16
               THEN UnmarshalInto(v.rest, [record EXCEPT !.offset = v.value])
            ELSE IF v.value > Len(v.rest) THEN [err |-> ErrProto, record |-> record]
            ELSE UnmarshalInto(SubSeq(v.rest, v.value + 1, Len(v.rest)),
                               [record EXCEPT !.value = SubSeq(v.rest, 1, v.value)])
    IN IF Len(b) = 0 THEN [err |-> Nil, record |-> record]
       ELSE IF b[1] \in {10, 16}
          THEN Let(ReadVarint(Tail(b)), LAMBDA v : Field(b[1], v))
       ELSE [err |-> ErrProto, record |-> record]

Unmarshal(b) == UnmarshalInto(b, [value |-> << >>, offset |-> 0])

----------------------------------------------------------------------------
(* Store *)

lenWidth == 8

(* bufio.Writer.Write: the bytes go to the buffer; an earlier write error   *)
(* of the writer is sticky. (Payloads are far below the 4096-byte buffer.)  *)
bufWrite(s, p) ==
    IF s.werr # Nil THEN [store |-> s, n |-> 0, err |-> s.werr]
    ELSE [store |-> [s EXCEPT !.buf = @ \o p], n |-> Len(p), err |-> Nil]

(* bufio.Writer.Flush: writes the buffer at the end of the file (O_APPEND). *)
bufFlush(s) ==
    IF s.werr # Nil THEN [store |-> s, err |-> s.werr]
    ELSE IF Len(s.buf) = 0 THEN [store |-> s, err |-> Nil]
    ELSE IF s.closed THEN [store |-> [s EXCEPT !.werr = ErrClosed], err |-> ErrClosed]
    ELSE [store |-> [s EXCEPT !.file = @ \o s.buf, !.buf = << >>], err |-> Nil]

(* os.File.ReadAt of n bytes at off. *)
fileReadAt(s, n, off) ==
    IF n = 0 THEN [n |-> 0, bytes |-> << >>, err |-> Nil]
    ELSE IF s.closed THEN [n |-> 0, bytes |-> << >>, err |-> ErrClosed]
    ELSE IF off + n > Len(s.file)
        THEN [n |-> IF off >= Len(s.file) THEN 0 ELSE Len(s.file) - off,
              bytes |-> << >>, err |-> EOF]
    ELSE [n |-> n, bytes |-> SubSeq(s.file, off + 1, off + n), err |-> Nil]

newStore(f) ==
    [file |-> f, buf |-> << >>, size |-> Len(f), closed |-> FALSE, werr |-> Nil]

(* store.Append that returns the position of the payload, not of the frame. *)
storeAppend_PosAfterHeader(s, p) ==
    LET pos == s.size + lenWidth
        Payload(w) ==
            IF w.err # Nil
               THEN [store |-> bufFlush(w.store).store, n |-> 0, pos |-> 0, err |-> w.err]
               ELSE [store |-> [bufFlush(w.store).store EXCEPT
                                   !.size = @ + w.n + lenWidth],
                     n |-> w.n + lenWidth, pos |-> pos, err |-> Nil]
        Header(h) ==
            IF h.err # Nil THEN [store |-> h.store, n |-> 0, pos |-> 0, err |-> h.err]
            ELSE Payload(bufWrite(bufFlush(h.store).store, p))
    IN Header(bufWrite(s, PutUint(Len(p), lenWidth)))

(* store.Append that leaves the length prefix out of what it counts. *)
storeAppend_CountPayloadOnly(s, p) ==
    LET pos == s.size
        Payload(w) ==
            IF w.err # Nil
               THEN [store |-> bufFlush(w.store).store, n |-> 0, pos |-> 0, err |-> w.err]
               ELSE [store |-> [bufFlush(w.store).store EXCEPT !.size = @ + w.n],
                     n |-> w.n, pos |-> pos, err |-> Nil]
        Header(h) ==
            IF h.err # Nil THEN [store |-> h.store, n |-> 0, pos |-> 0, err |-> h.err]
            ELSE Payload(bufWrite(bufFlush(h.store).store, p))
    IN Header(bufWrite(s, PutUint(Len(p), lenWidth)))

(* store.Append that writes the length of the whole frame as the prefix. *)
storeAppend_PrefixFrameLength(s, p) ==
    LET pos == s.size
        Payload(w) ==
            IF w.err # Nil
               THEN [store |-> bufFlush(w.store).store, n |-> 0, pos |-> 0, err |-> w.err]
               ELSE [store |-> [bufFlush(w.store).store EXCEPT
                                   !.size = @ + w.n + lenWidth],
                     n |-> w.n + lenWidth, pos |-> pos, err |-> Nil]
        Header(h) ==
            IF h.err # Nil THEN [store |-> h.store, n |-> 0, pos |-> 0, err |-> h.err]
            ELSE Payload(bufWrite(bufFlush(h.store).store, p))
    IN Header(bufWrite(s, PutUint(Len(p) + lenWidth, lenWidth)))

storeAppend(s, p) ==
    LET pos == s.size
        Payload(w) ==
            \* w: s.buf.Write(p); then s.buf.Flush()
            IF w.err # Nil
               THEN [store |-> bufFlush(w.store).store, n |-> 0, pos |-> 0, err |-> w.err]
               ELSE [store |-> [bufFlush(w.store).store EXCEPT
                                   !.size = @ + w.n + lenWidth],
                     n |-> w.n + lenWidth, pos |-> pos, err |-> Nil]
        Header(h) ==
            \* h: binary.Write(s.buf, enc, uint64(len(p))); then s.buf.Flush()
            IF h.err # Nil THEN [store |-> h.store, n |-> 0, pos |-> 0, err |-> h.err]
            ELSE Payload(bufWrite(bufFlush(h.store).store, p))
    IN Header(bufWrite(s, PutUint(Len(p), lenWidth)))

(* store.Read that reads the payload where the length prefix starts. *)
storeRead_NoSkip(s, pos) ==
    LET Payload(f, payload) ==
            [store |-> f.store, p |-> payload.bytes, err |-> payload.err]
        Size(f, sizeBuffer) ==
            IF sizeBuffer.err # Nil
               THEN [store |-> f.store, p |-> << >>, err |-> sizeBuffer.err]
               ELSE Let(fileReadAt(f.store, Uint(sizeBuffer.bytes), pos),
                        LAMBDA payload : Payload(f, payload))
        Flushed(f) ==
            IF f.err # Nil THEN [store |-> f.store, p |-> << >>, err |-> f.err]
            ELSE Let(fileReadAt(f.store, lenWidth, pos),
                     LAMBDA sizeBuffer : Size(f, sizeBuffer))
    IN Let(bufFlush(s), Flushed)

storeRead(s, pos) ==
    LET Payload(f, payload) ==
            [store |-> f.store, p |-> payload.bytes, err |-> payload.err]
        Size(f, sizeBuffer) ==
            IF sizeBuffer.err # Nil
               THEN [store |-> f.store, p |-> << >>, err |-> sizeBuffer.err]
               ELSE Let(fileReadAt(f.store, Uint(sizeBuffer.bytes), pos + lenWidth),
                        LAMBDA payload : Payload(f, payload))
        Flushed(f) ==
            IF f.err # Nil THEN [store |-> f.store, p |-> << >>, err |-> f.err]
            ELSE Let(fileReadAt(f.store, lenWidth, pos),
                     LAMBDA sizeBuffer : Size(f, sizeBuffer))
    IN Let(bufFlush(s), Flushed)

(* store.ReadAt: flushes, then reads n bytes of the file at off. *)
storeReadAt(s, n, off) ==
    LET Read(f, r) == [store |-> f.store, n |-> r.n, bytes |-> r.bytes, err |-> r.err]
        Flushed(f) ==
            IF f.err # Nil
               THEN [store |-> f.store, n |-> 0, bytes |-> << >>, err |-> f.err]
               ELSE Let(fileReadAt(f.store, n, off), LAMBDA r : Read(f, r))
    IN Let(bufFlush(s), Flushed)

(* The positions at which the frames of a store file start: a frame is a   *)
(* length prefix of lenWidth bytes and as many payload bytes as it says.    *)
FrameStarts(file) ==
    LET starts[pos \in 0..Len(file)] ==
            IF pos + lenWidth > Len(file) THEN << >>
            ELSE Let(pos + lenWidth + Uint(SubSeq(file, pos + 1, pos + lenWidth)),
                     LAMBDA next : IF next > Len(file) THEN <<pos>>
                                   ELSE <<pos>> \o starts[next])
    IN starts[0]

storeClose(s) ==
    LET Flushed(f) ==
            IF f.err # Nil THEN [store |-> f.store, err |-> f.err]
            ELSE IF s.closed THEN [store |-> f.store, err |-> ErrClosed]
            ELSE [store |-> [f.store EXCEPT !.closed = TRUE], err |-> Nil]
    IN Flushed(bufFlush(s))

----------------------------------------------------------------------------
(* Integer widths.  TLC's integers are 32-bit, so the 32- and 64-bit        *)
(* unsigned types of the program are modelled with the moduli below; every  *)
(* offset, position and size of the model is far below both.                *)

Wrap32 == 65536
Wrap64 == 16777216

Uint32(n) == n % Wrap32
Uint64(n) == n % Wrap64
Int64(n) == IF n % Wrap64 >= Wrap64 \div 2 THEN (n % Wrap64) - Wrap64 ELSE n % Wrap64

----------------------------------------------------------------------------
(* Index *)

offWidth == 4
posWidth == 8
entWidth == offWidth + posWidth

(* newIndex that maps the file at the length it has. *)
newIndex_NoGrow(f, c) ==
    [mmap |-> f, size |-> Len(f), fileLen |-> Len(f), closed |-> FALSE]

(* newIndex: the size is the file's size, then the file is truncated (that  *)
(* is grown with zeros, or cut) to MaxIndexBytes and mapped.                *)
newIndex(f, c) ==
    [mmap    |-> IF Len(f) >= c.MaxIndexBytes
                    THEN SubSeq(f, 1, c.MaxIndexBytes)
                    ELSE f \o Zeros(c.MaxIndexBytes - Len(f)),
     size    |-> Len(f),
     fileLen |-> c.MaxIndexBytes,
     closed  |-> FALSE]

(* The bytes of the index file on disk (the mapping is shared). *)
indexFile(i) == SubSeq(i.mmap, 1, i.fileLen)

(* index.Close that leaves the file at its mapped length. *)
indexClose_NoTruncate(i) ==
    IF i.closed THEN [index |-> i, err |-> ErrClosed]
    ELSE [index |-> [i EXCEPT !.closed = TRUE], err |-> Nil]

(* index.Close: sync, truncate the file to size, close it. *)
indexClose(i) ==
    IF i.closed THEN [index |-> i, err |-> ErrClosed]
    ELSE [index |-> [i EXCEPT !.fileLen = i.size, !.closed = TRUE], err |-> Nil]

(* index.Read whose -1 selects the entry after the last one. *)
indexRead_OffByOne(i, in) ==
    LET Entry(pos) ==
            IF i.size < pos + entWidth THEN [out |-> 0, pos |-> 0, err |-> EOF]
            ELSE [out |-> Uint(SubSeq(i.mmap, pos + 1, pos + offWidth)),
                  pos |-> Uint(SubSeq(i.mmap, pos + offWidth + 1, pos + entWidth)),
                  err |-> Nil]
    IN IF i.size = 0 THEN [out |-> 0, pos |-> 0, err |-> EOF]
       ELSE IF in = -1
          THEN Let(Uint64(Uint32(i.size \div entWidth) * entWidth), Entry)
          ELSE Let(Uint64(Uint32(in) * entWidth), Entry)

indexRead(i, in) ==
    LET Entry(pos) ==
            IF i.size < pos + entWidth THEN [out |-> 0, pos |-> 0, err |-> EOF]
            ELSE [out |-> Uint(SubSeq(i.mmap, pos + 1, pos + offWidth)),
                  pos |-> Uint(SubSeq(i.mmap, pos + offWidth + 1, pos + entWidth)),
                  err |-> Nil]
    IN IF i.size = 0 THEN [out |-> 0, pos |-> 0, err |-> EOF]
       ELSE IF in = -1
          THEN Let(Uint64(Uint32((i.size \div entWidth) - 1) * entWidth), Entry)
          ELSE Let(Uint64(Uint32(in) * entWidth), Entry)

(* index.Write that wants room beyond the entry it writes. *)
indexWrite_Strict(i, off, pos) ==
    IF Len(i.mmap) <= i.size + entWidth THEN [index |-> i, err |-> EOF]
    ELSE [index |->
            [i EXCEPT
               !.mmap = SubSeq(i.mmap, 1, i.size)
                        \o PutUint(off, offWidth)
                        \o PutUint(pos, posWidth)
                        \o SubSeq(i.mmap, i.size + entWidth + 1, Len(i.mmap)),
               !.size = @ + entWidth],
          err |-> Nil]

indexWrite(i, off, pos) ==
    IF Len(i.mmap) < i.size + entWidth THEN [index |-> i, err |-> EOF]
    ELSE [index |->
            [i EXCEPT
               !.mmap = SubSeq(i.mmap, 1, i.size)
                        \o PutUint(off, offWidth)
                        \o PutUint(pos, posWidth)
                        \o SubSeq(i.mmap, i.size + entWidth + 1, Len(i.mmap)),
               !.size = @ + entWidth],
          err |-> Nil]

----------------------------------------------------------------------------
(* Segment *)

(* newSegment that takes the last relative offset as the next one. *)
newSegment_NoPlusOne(storeFile, idxFile, baseOffset, c) ==
    LET Seeded(idx, r) ==
            [store |-> newStore(storeFile), index |-> idx, baseOffset |-> baseOffset,
             nextOffset |-> IF r.err # Nil THEN baseOffset
                            ELSE Uint64(baseOffset + r.out)]
        Indexed(idx) == Seeded(idx, indexRead(idx, -1))
    IN Indexed(newIndex(idxFile, c))

(* newSegment: opens or creates <baseOffset>.store and <baseOffset>.index   *)
(* (storeFile and idxFile are their contents, empty when created) and       *)
(* seeds nextOffset from the last index entry.                              *)
newSegment(storeFile, idxFile, baseOffset, c) ==
    LET Seeded(idx, r) ==
            [store |-> newStore(storeFile), index |-> idx, baseOffset |-> baseOffset,
             nextOffset |-> IF r.err # Nil THEN baseOffset
                            ELSE Uint64(baseOffset + r.out + 1)]
        Indexed(idx) == Seeded(idx, indexRead(idx, -1))
    IN Indexed(newIndex(idxFile, c))

(* segmentAppend that writes every index entry with relative offset 0. *)
segmentAppend_RelativeZero(s, record) ==
    LET cur == s.nextOffset
        Written(a, w) ==
            IF w.err # Nil
               THEN [segment |-> [s EXCEPT !.store = a.store],
                     offset |-> 0, err |-> w.err]
               ELSE [segment |-> [s EXCEPT !.store = a.store,
                                           !.index = w.index,
                                           !.nextOffset = Uint64(@ + 1)],
                     offset |-> cur, err |-> Nil]
        Stored(a) ==
            IF a.err # Nil
               THEN [segment |-> [s EXCEPT !.store = a.store],
                     offset |-> 0, err |-> a.err]
               ELSE Written(a, indexWrite(s.index, 0, a.pos))
    IN Stored(storeAppend(s.store, Marshal([record EXCEPT !.offset = cur])))

(* segmentAppend that advances nextOffset also when the index is full. *)
segmentAppend_IncrementOnFailure(s, record) ==
    LET cur == s.nextOffset
        Written(a, w) ==
            IF w.err # Nil
               THEN [segment |-> [s EXCEPT !.store = a.store,
                                           !.nextOffset = Uint64(@ + 1)],
                     offset |-> 0, err |-> w.err]
               ELSE [segment |-> [s EXCEPT !.store = a.store,
                                           !.index = w.index,
                                           !.nextOffset = Uint64(@ + 1)],
                     offset |-> cur, err |-> Nil]
        Stored(a) ==
            IF a.err # Nil
               THEN [segment |-> [s EXCEPT !.store = a.store],
                     offset |-> 0, err |-> a.err]
               ELSE Written(a, indexWrite(s.index,
                                          Uint32(s.nextOffset - s.baseOffset), a.pos))
    IN Stored(storeAppend(s.store, Marshal([record EXCEPT !.offset = cur])))

(* segmentAppend that stores the record with the offset the caller gave. *)
segmentAppend_KeepCallerOffset(s, record) ==
    LET cur == s.nextOffset
        Written(a, w) ==
            IF w.err # Nil
               THEN [segment |-> [s EXCEPT !.store = a.store],
                     offset |-> 0, err |-> w.err]
               ELSE [segment |-> [s EXCEPT !.store = a.store,
                                           !.index = w.index,
                                           !.nextOffset = Uint64(@ + 1)],
                     offset |-> cur, err |-> Nil]
        Stored(a) ==
            IF a.err # Nil
               THEN [segment |-> [s EXCEPT !.store = a.store],
                     offset |-> 0, err |-> a.err]
               ELSE Written(a, indexWrite(s.index,
                                          Uint32(s.nextOffset - s.baseOffset), a.pos))
    IN Stored(storeAppend(s.store, Marshal(record)))

(* segmentAppend that does not advance nextOffset. *)
segmentAppend_NoIncrement(s, record) ==
    LET cur == s.nextOffset
        Written(a, w) ==
            IF w.err # Nil
               THEN [segment |-> [s EXCEPT !.store = a.store],
                     offset |-> 0, err |-> w.err]
               ELSE [segment |-> [s EXCEPT !.store = a.store, !.index = w.index],
                     offset |-> cur, err |-> Nil]
        Stored(a) ==
            IF a.err # Nil
               THEN [segment |-> [s EXCEPT !.store = a.store],
                     offset |-> 0, err |-> a.err]
               ELSE Written(a, indexWrite(s.index,
                                          Uint32(s.nextOffset - s.baseOffset), a.pos))
    IN Stored(storeAppend(s.store, Marshal([record EXCEPT !.offset = cur])))

segmentAppend(s, record) ==
    LET cur == s.nextOffset
        Written(a, w) ==
            IF w.err # Nil
               THEN [segment |-> [s EXCEPT !.store = a.store],
                     offset |-> 0, err |-> w.err]
               ELSE [segment |-> [s EXCEPT !.store = a.store,
                                           !.index = w.index,
                                           !.nextOffset = Uint64(@ + 1)],
                     offset |-> cur, err |-> Nil]
        Stored(a) ==
            IF a.err # Nil
               THEN [segment |-> [s EXCEPT !.store = a.store],
                     offset |-> 0, err |-> a.err]
               ELSE Written(a, indexWrite(s.index,
                                          Uint32(s.nextOffset - s.baseOffset), a.pos))
    IN Stored(storeAppend(s.store, Marshal([record EXCEPT !.offset = cur])))

segmentRead(s, off) ==
    LET Decoded(r, u) ==
            [segment |-> [s EXCEPT !.store = r.store],
             record |-> u.record, err |-> u.err]
        Fetched(r) ==
            IF r.err # Nil
               THEN [segment |-> [s EXCEPT !.store = r.store],
                     record |-> NoRecord, err |-> r.err]
               ELSE Let(Unmarshal(r.p), LAMBDA u : Decoded(r, u))
        Located(e) ==
            IF e.err # Nil THEN [segment |-> s, record |-> NoRecord, err |-> e.err]
            ELSE Let(storeRead(s.store, e.pos), Fetched)
    IN Let(indexRead(s.index, Int64(off - s.baseOffset)), Located)

(* IsMaxed with strict comparisons. *)
IsMaxed_Strict(s, c) ==
    s.store.size > c.MaxStoreBytes \/ s.index.size > c.MaxIndexBytes

IsMaxed(s, c) ==
    s.store.size >= c.MaxStoreBytes \/ s.index.size >= c.MaxIndexBytes

segmentClose(s) ==
    LET StoreClosed(i, c) ==
            [segment |-> [s EXCEPT !.index = i.index, !.store = c.store],
             err |-> c.err]
        IndexClosed(i) ==
            IF i.err # Nil
               THEN [segment |-> [s EXCEPT !.index = i.index], err |-> i.err]
               ELSE StoreClosed(i, storeClose(s.store))
    IN IndexClosed(indexClose(s.index))

----------------------------------------------------------------------------
(* Log (modelled from its specification) *)

(* The segment of segs that holds offset off, 0 when there is none. *)
RECURSIVE FindSegment(_, _, _)
FindSegment(segs, off, i) ==
    IF i > Len(segs) THEN 0
    ELSE IF segs[i].baseOffset <= off /\ off < segs[i].nextOffset THEN i
    ELSE FindSegment(segs, off, i + 1)

(* Log.Append: delegates to the active segment; when the segment is maxed   *)
(* after the append, a segment based at its nextOffset becomes active.      *)
LogAppend(segs, active, c, record) ==
    LET Appended(a) ==
            IF a.err # Nil
               THEN [segments |-> [segs EXCEPT ![active] = a.segment],
                     active |-> active, offset |-> 0, err |-> a.err]
            ELSE IF IsMaxed(a.segment, c)
               THEN [segments |-> Append([segs EXCEPT ![active] = a.segment],
                                         newSegment(<< >>, << >>,
                                                    a.segment.nextOffset, c)),
                     active |-> Len(segs) + 1, offset |-> a.offset, err |-> Nil]
            ELSE [segments |-> [segs EXCEPT ![active] = a.segment],
                  active |-> active, offset |-> a.offset, err |-> Nil]
    IN Appended(segmentAppend(segs[active], record))

(* Log.Read: routes to the segment with baseOffset <= off < nextOffset. *)
LogRead(segs, off) ==
    LET Read(i, r) ==
            [segments |-> [segs EXCEPT ![i] = r.segment],
             record |-> IF r.err = Nil THEN r.record ELSE NoRecord,
             err |-> r.err]
        Found(i) ==
            IF i = 0
               THEN [segments |-> segs, record |-> NoRecord,
                     err |-> ErrOffsetOutOfRange]
               ELSE Let(segmentRead(segs[i], off), LAMBDA r : Read(i, r))
    IN Let(FindSegment(segs, off, 1), Found)

(* Log.Close: closes each segment, stopping at the first error. *)
RECURSIVE LogClose(_, _)
LogClose(segs, i) ==
    LET Closed(r) ==
            IF r.err # Nil
               THEN [segments |-> [segs EXCEPT ![i] = r.segment], err |-> r.err]
               ELSE LogClose([segs EXCEPT ![i] = r.segment], i + 1)
    IN IF i > Len(segs) THEN [segments |-> segs, err |-> Nil]
       ELSE Closed(segmentClose(segs[i]))

(* The log directory: for every segment the contents of its two files. *)
Dir(segs) ==
    { [baseOffset |-> segs[i].baseOffset,
       store |-> segs[i].store.file,
       index |-> indexFile(segs[i].index)] : i \in 1..Len(segs) }

(* The files of dir in ascending order of base offset. *)
RECURSIVE SortByBase(_)
SortByBase(dir) ==
    LET First(f) == <<f>> \o SortByBase(dir \ {f})
    IN IF dir = {} THEN << >>
       ELSE First(CHOOSE x \in dir : \A y \in dir : x.baseOffset <= y.baseOffset)

(* NewLog: one segment per base offset found in the directory, ascending;   *)
(* a segment at InitialOffset when the directory is empty. The last is      *)
(* the active one.                                                          *)
NewLog(dir, c) ==
    LET Opened(segs) == [segments |-> segs, active |-> Len(segs)]
        Scanned(files) ==
            IF Len(files) = 0
               THEN Opened(<< newSegment(<< >>, << >>, c.InitialOffset, c) >>)
               ELSE Opened([i \in 1..Len(files) |->
                              newSegment(files[i].store, files[i].index,
                                         files[i].baseOffset, c)])
    IN Scanned(SortByBase(dir))

----------------------------------------------------------------------------
(* Server *)

objectWildcard == "*"
produceAction == "produce"
consumeAction == "consume"

Subjects == {"root", "nobody"}

(* The injected authorizer (modelled from its specification): an ACL that   *)
(* permits root to produce and to consume, and nobody nothing.              *)
Policy == { <<"root", objectWildcard, produceAction>>,
            <<"root", objectWildcard, consumeAction>> }

Authorize(subject, object, action) ==
    IF <<subject, object, action>> \in Policy THEN Nil ELSE PermissionDenied

NoOffset == -1

(* Produce that does not ask the authorizer. *)
Produce_NoAuthorize(segs, active, c, subject, record) ==
    LET Appended(a) ==
            IF a.err # Nil
               THEN [segments |-> a.segments, active |-> a.active, appended |-> TRUE,
                     hasResponse |-> FALSE, offset |-> NoOffset, err |-> a.err]
               ELSE [segments |-> a.segments, active |-> a.active, appended |-> TRUE,
                     hasResponse |-> TRUE, offset |-> a.offset, err |-> Nil]
    IN Appended(LogAppend(segs, active, c, record))

(* grpcServer.Produce: the response (hasResponse, offset) and the error,    *)
(* with the log as the call leaves it; appended tells whether               *)
(* CommitLog.Append was called.                                             *)
Produce(segs, active, c, subject, record) ==
    LET Appended(a) ==
            IF a.err # Nil
               THEN [segments |-> a.segments, active |-> a.active, appended |-> TRUE,
                     hasResponse |-> FALSE, offset |-> NoOffset, err |-> a.err]
               ELSE [segments |-> a.segments, active |-> a.active, appended |-> TRUE,
                     hasResponse |-> TRUE, offset |-> a.offset, err |-> Nil]
        Authorized(denied) ==
            IF denied # Nil
               THEN [segments |-> segs, active |-> active, appended |-> FALSE,
                     hasResponse |-> FALSE, offset |-> NoOffset, err |-> denied]
               ELSE Appended(LogAppend(segs, active, c, record))
    IN Authorized(Authorize(subject, objectWildcard, produceAction))

(* Consume that answers an empty record where the log returned an error. *)
Consume_SwallowError(segs, subject, off) ==
    LET Read(r) ==
            IF r.err # Nil
               THEN [segments |-> r.segments, hasResponse |-> TRUE,
                     record |-> [value |-> << >>, offset |-> 0], err |-> Nil]
               ELSE [segments |-> r.segments, hasResponse |-> TRUE,
                     record |-> r.record, err |-> Nil]
    IN Let(LogRead(segs, off), Read)

(* grpcServer.Consume: the response (hasResponse, record) and the error.    *)
(* The subject of the context is not consulted.                             *)
Consume(segs, subject, off) ==
    LET Read(r) ==
            IF r.err # Nil
               THEN [segments |-> r.segments, hasResponse |-> FALSE,
                     record |-> NoRecord, err |-> r.err]
               ELSE [segments |-> r.segments, hasResponse |-> TRUE,
                     record |-> r.record, err |-> Nil]
    IN Let(LogRead(segs, off), Read)

(* ConsumeStream that returns the error when the offset is out of range. *)
ConsumeStream_StopOnOutOfRange(cs, segs, sendOk) ==
    LET Consumed(r) ==
            IF r.err # Nil
               THEN [cstream |-> [cs EXCEPT !.state = "done", !.err = r.err],
                     segments |-> r.segments]
            ELSE IF ~sendOk
               THEN [cstream |-> [cs EXCEPT !.state = "done", !.err = ErrSend],
                     segments |-> r.segments]
            ELSE [cstream |-> [cs EXCEPT !.sent = Append(@, r.record),
                                         !.offset = Uint64(@ + 1)],
                  segments |-> r.segments]
    IN IF cs.cancelled
          THEN [cstream |-> [cs EXCEPT !.state = "done", !.err = Nil],
                segments |-> segs]
          ELSE Let(Consume(segs, cs.subject, cs.offset), Consumed)

(* ConsumeStream that advances the request offset on every iteration. *)
ConsumeStream_AdvanceOnPoll(cs, segs, sendOk) ==
    LET Consumed(r) ==
            IF r.err = ErrOffsetOutOfRange
               THEN [cstream |-> [cs EXCEPT !.polled = TRUE, !.offset = Uint64(@ + 1)],
                     segments |-> r.segments]
            ELSE IF r.err # Nil
               THEN [cstream |-> [cs EXCEPT !.state = "done", !.err = r.err],
                     segments |-> r.segments]
            ELSE IF ~sendOk
               THEN [cstream |-> [cs EXCEPT !.state = "done", !.err = ErrSend],
                     segments |-> r.segments]
            ELSE [cstream |-> [cs EXCEPT !.sent = Append(@, r.record),
                                         !.offset = Uint64(@ + 1)],
                  segments |-> r.segments]
    IN IF cs.cancelled
          THEN [cstream |-> [cs EXCEPT !.state = "done", !.err = Nil],
                segments |-> segs]
          ELSE Let(Consume(segs, cs.subject, cs.offset), Consumed)

(* ConsumeStream that looks at the context only after a record was sent. *)
ConsumeStream_IgnoreCancelWhilePolling(cs, segs, sendOk) ==
    LET Consumed(r) ==
            IF r.err = ErrOffsetOutOfRange
               THEN [cstream |-> [cs EXCEPT !.polled = TRUE], segments |-> r.segments]
            ELSE IF cs.cancelled
               THEN [cstream |-> [cs EXCEPT !.state = "done", !.err = Nil],
                     segments |-> segs]
            ELSE IF r.err # Nil
               THEN [cstream |-> [cs EXCEPT !.state = "done", !.err = r.err],
                     segments |-> r.segments]
            ELSE IF ~sendOk
               THEN [cstream |-> [cs EXCEPT !.state = "done", !.err = ErrSend],
                     segments |-> r.segments]
            ELSE [cstream |-> [cs EXCEPT !.sent = Append(@, r.record),
                                         !.offset = Uint64(@ + 1)],
                  segments |-> r.segments]
    IN Let(Consume(segs, cs.subject, cs.offset), Consumed)

(* One iteration of the loop of grpcServer.ConsumeStream. cs is the call:   *)
(* its request (offset), its context (subject, cancelled) and what the      *)
(* stream has sent; sendOk is whether stream.Send succeeds. polled records  *)
(* that an iteration found the offset out of range and went on.             *)
ConsumeStream(cs, segs, sendOk) ==
    LET Consumed(r) ==
            IF r.err = ErrOffsetOutOfRange
               THEN [cstream |-> [cs EXCEPT !.polled = TRUE], segments |-> r.segments]
            ELSE IF r.err # Nil
               THEN [cstream |-> [cs EXCEPT !.state = "done", !.err = r.err],
                     segments |-> r.segments]
            ELSE IF ~sendOk
               THEN [cstream |-> [cs EXCEPT !.state = "done", !.err = ErrSend],
                     segments |-> r.segments]
            ELSE [cstream |-> [cs EXCEPT !.sent = Append(@, r.record),
                                         !.offset = Uint64(@ + 1)],
                  segments |-> r.segments]
    IN IF cs.cancelled
          THEN [cstream |-> [cs EXCEPT !.state = "done", !.err = Nil],
                segments |-> segs]
          ELSE Let(Consume(segs, cs.subject, cs.offset), Consumed)

(* One iteration of the loop of grpcServer.ProduceStream: stream.Recv,      *)
(* Produce, stream.Send.                                                    *)
ProduceStream(ps, segs, active, c, recvOk, record, sendOk) ==
    LET Produced(r) ==
            [pstream |-> IF r.err # Nil
                            THEN [ps EXCEPT !.state = "done", !.err = r.err]
                         ELSE IF ~sendOk
                            THEN [ps EXCEPT !.state = "done", !.err = ErrSend]
                         ELSE ps,
             segments |-> r.segments, active |-> r.active, appended |-> r.appended,
             hasResponse |-> r.err = Nil /\ sendOk, offset |-> r.offset,
             err |-> r.err]
    IN IF ~recvOk
          THEN [pstream |-> [ps EXCEPT !.state = "done", !.err = ErrRecv],
                segments |-> segs, active |-> active, appended |-> FALSE,
                hasResponse |-> FALSE, offset |-> NoOffset, err |-> ErrRecv]
          ELSE Produced(Produce(segs, active, c, ps.subject, record))

----------------------------------------------------------------------------
(* The state machine *)

(* The offsets a consumer asks for. *)
Offsets == 0..(MaxAppends + 3)

IdleStream == [state |-> "idle", subject |-> "root", start |-> 0, offset |-> 0,
               sent |-> << >>, err |-> Nil, cancelled |-> FALSE, polled |-> FALSE]

IdleProducer == [state |-> "idle", subject |-> "root", err |-> Nil]

Op(op, subject, arg, hasResponse, offset, record, err) ==
    [op |-> op, subject |-> subject, arg |-> arg, hasResponse |-> hasResponse,
     offset |-> offset, record |-> record, err |-> err,
     active |-> activeSegment, afterReopen |-> snap.valid /\ opened]

(* What every offset reads as: the result of Log.Read, without the log. *)
ReadResult(r) == [record |-> r.record, err |-> r.err]

Reads(segs) == [o \in Offsets |-> ReadResult(LogRead(segs, o))]

NextAssigned ==
    IF Len(hist) = 0 THEN config.InitialOffset ELSE hist[Len(hist)].offset + 1

InitLog(l) == segments = l.segments /\ activeSegment = l.active

(* A store on a fresh temporary file (store_test.go), with what the test    *)
(* has observed: the frames appended and the call made last.                *)
StoreOp(op, after, arg, n, pos, p, err) ==
    [op |-> op, after |-> after, arg |-> arg, n |-> n, pos |-> pos, p |-> p,
     err |-> err]

FreshStore ==
    [s |-> newStore(<< >>), frames |-> << >>, appends |-> 0,
     op |-> StoreOp("newStore", "", 0, 0, 0, << >>, Nil)]

(* An index on a fresh file, with the entries written to it and the call    *)
(* made last.                                                               *)
IndexOp(op, in, off, pos, err) ==
    [op |-> op, in |-> in, off |-> off, pos |-> pos, err |-> err]

FreshIndex ==
    [i |-> newIndex(<< >>, config), written |-> << >>, writes |-> 0, reopens |-> 0,
     op |-> IndexOp("newIndex", 0, 0, 0, Nil)]

(* The goroutines that call Log.Append at the same time. Each is at a       *)
(* position in segment.Append: it holds the segment it appends to (seg),    *)
(* the offset it read (cur), the encoded record (p) and the position the    *)
(* store returned (pos); offset and err are what the call returns.          *)
Appenders == 1..NumAppenders

IdleAppenders ==
    [a \in Appenders |->
        [pc |-> "idle", value |-> << >>, seg |-> 0, cur |-> 0, p |-> << >>,
         pos |-> 0, offset |-> NoOffset, err |-> Nil]]

(* Whether appender a is inside segment.Append, holding the log's read lock. *)
InSegmentAppend(a) == appenders[a].pc \in {"marshalled", "stored", "indexed"}

Init ==
    /\ config \in Configs
    /\ InitLog(NewLog({}, config))
    /\ opened = TRUE
    /\ restarts = 0
    /\ attempts = 0
    /\ hist = << >>
    /\ snap = [valid |-> FALSE, reads |-> << >>, next |-> 0]
    /\ lastOp = [op |-> "NewLog", subject |-> "", arg |-> 0, hasResponse |-> FALSE,
                 offset |-> NoOffset, record |-> NoRecord, err |-> Nil,
                 active |-> 0, afterReopen |-> FALSE]
    /\ cstream = IdleStream
    /\ pstream = IdleProducer
    /\ st = FreshStore
    /\ ix = FreshIndex
    /\ appenders = IdleAppenders

(* What a Produce leaves in the log and in the history variables. *)
Produced(r, value) ==
    /\ segments' = r.segments
    /\ activeSegment' = r.active
    /\ attempts' = IF r.appended THEN attempts + 1 ELSE attempts
    /\ hist' = IF r.appended /\ r.err = Nil
                  THEN Append(hist, [value |-> value, offset |-> r.offset])
                  ELSE hist
    /\ snap' = IF r.appended /\ r.err = Nil THEN [snap EXCEPT !.valid = FALSE]
               ELSE snap

(* store.Append on the store used on its own. *)
StoreAppend ==
    \E p \in Payloads :
        /\ st.appends < MaxStoreOps
        /\ \E r \in {storeAppend(st.s, p)} :
              st' = [s |-> r.store,
                     frames |-> IF r.err = Nil
                                   THEN Append(st.frames,
                                               [p |-> p, pos |-> r.pos, n |-> r.n,
                                                before |-> st.s.size])
                                   ELSE st.frames,
                     appends |-> st.appends + 1,
                     op |-> StoreOp("Append", st.op.op, p, r.n, r.pos, << >>, r.err)]
        /\ UNCHANGED <<config, serverVars, ix, appenders>>

(* store.Read at the position of a frame, or at the end of the store. *)
StoreRead ==
    \E pos \in {st.frames[i].pos : i \in 1..Len(st.frames)} \cup {st.s.size} :
        /\ \E r \in {storeRead(st.s, pos)} :
              st' = [st EXCEPT !.s = r.store,
                               !.op = StoreOp("Read", st.op.op, pos, 0, pos, r.p, r.err)]
        /\ UNCHANGED <<config, serverVars, ix, appenders>>

(* store.ReadAt of a length prefix or of a payload. *)
StoreReadAt ==
    \E i \in 1..Len(st.frames), part \in {"prefix", "payload"} :
        /\ \E r \in {IF part = "prefix"
                         THEN storeReadAt(st.s, lenWidth, st.frames[i].pos)
                         ELSE storeReadAt(st.s, Len(st.frames[i].p),
                                          st.frames[i].pos + lenWidth)} :
              st' = [st EXCEPT !.s = r.store,
                               !.op = StoreOp("ReadAt", st.op.op,
                                              IF part = "prefix" THEN lenWidth
                                              ELSE Len(st.frames[i].p),
                                              r.n,
                                              IF part = "prefix" THEN st.frames[i].pos
                                              ELSE st.frames[i].pos + lenWidth,
                                              r.bytes, r.err)]
        /\ UNCHANGED <<config, serverVars, ix, appenders>>

(* store.Close. *)
StoreClose ==
    /\ \E r \in {storeClose(st.s)} :
          st' = [st EXCEPT !.s = r.store,
                           !.op = StoreOp("Close", st.op.op, 0, 0, 0, << >>, r.err)]
    /\ UNCHANGED <<config, serverVars, ix, appenders>>

(* index.Write on the index used on its own. *)
IndexWrite ==
    \E e \in Entries :
        /\ ~ix.i.closed
        /\ ix.writes < MaxIndexOps
        /\ \E r \in {indexWrite(ix.i, e[1], e[2])} :
              ix' = [ix EXCEPT !.i = r.index,
                               !.written = IF r.err = Nil
                                              THEN Append(@, [off |-> e[1], pos |-> e[2]])
                                              ELSE @,
                               !.writes = @ + 1,
                               !.op = IndexOp("Write", 0, e[1], e[2], r.err)]
        /\ UNCHANGED <<config, serverVars, st, appenders>>

(* The inputs given to index.Read (an int64): -1, the entry numbers up to   *)
(* one past the last that can exist, a negative number other than -1, and   *)
(* numbers whose low 32 bits are those of a small entry number.             *)
ReadInputs == (-2..MaxIndexOps) \cup {Wrap32, Wrap32 + 1, -Wrap32}

(* index.Read of the last entry (-1) or of entry number in. *)
IndexRead ==
    \E in \in ReadInputs :
        /\ ~ix.i.closed
        /\ \E r \in {indexRead(ix.i, in)} :
              ix' = [ix EXCEPT !.op = IndexOp("Read", in, r.out, r.pos, r.err)]
        /\ UNCHANGED <<config, serverVars, st, appenders>>

(* index.Close. *)
IndexClose ==
    /\ ~ix.i.closed
    /\ \E r \in {indexClose(ix.i)} :
          ix' = [ix EXCEPT !.i = r.index, !.op = IndexOp("Close", 0, 0, 0, r.err)]
    /\ UNCHANGED <<config, serverVars, st, appenders>>

(* newIndex on the file of the closed index. *)
IndexReopen ==
    /\ ix.i.closed
    /\ ix.reopens < MaxRestarts
    /\ ix' = [ix EXCEPT !.i = newIndex(indexFile(ix.i), config),
                        !.reopens = @ + 1,
                        !.op = IndexOp("newIndex", 0, 0, 0, Nil)]
    /\ UNCHANGED <<config, serverVars, st, appenders>>

(* index.Write on an index after its Close. Close does not unmap the file,  *)
(* so Write finds the mapping as it was. (A closed index of size 0 has a    *)
(* file of no bytes, and touching its mapping faults: that call does not    *)
(* return.)                                                                 *)
IndexWriteAfterClose ==
    \E e \in Entries :
        /\ ix.i.closed
        /\ ix.i.fileLen > 0
        /\ ix.writes < MaxIndexOps
        /\ \E r \in {indexWrite(ix.i, e[1], e[2])} :
              ix' = [ix EXCEPT !.i = r.index,
                               !.written = IF r.err = Nil
                                              THEN Append(@, [off |-> e[1], pos |-> e[2]])
                                              ELSE @,
                               !.writes = @ + 1,
                               !.op = IndexOp("Write", 0, e[1], e[2], r.err)]
        /\ UNCHANGED <<config, serverVars, st, appenders>>

(* index.Read on an index after its Close. *)
IndexReadAfterClose ==
    \E in \in -1..MaxIndexOps :
        /\ ix.i.closed
        /\ \E r \in {indexRead(ix.i, in)} :
              ix' = [ix EXCEPT !.op = IndexOp("Read", in, r.out, r.pos, r.err)]
        /\ UNCHANGED <<config, serverVars, st, appenders>>

(* Log.Append enters segment.Append on the active segment:                  *)
(* cur := s.nextOffset; record.Offset = cur; p := proto.Marshal(record).    *)
AppendBegin ==
    \E a \in Appenders, value \in Values :
        /\ appenders[a].pc = "idle"
        /\ appenders' =
              [appenders EXCEPT
                 ![a] = [@ EXCEPT
                           !.pc = "marshalled",
                           !.value = value,
                           !.seg = activeSegment,
                           !.cur = segments[activeSegment].nextOffset,
                           !.p = Marshal([value |-> value,
                                          offset |-> segments[activeSegment].nextOffset])]]
        /\ UNCHANGED <<config, serverVars, st, ix>>

(* _, pos, err := s.store.Append(p), under the store's mutex. *)
AppendStore ==
    \E a \in Appenders :
        /\ appenders[a].pc = "marshalled"
        /\ \E r \in {storeAppend(segments[appenders[a].seg].store, appenders[a].p)} :
              /\ segments' = [segments EXCEPT ![appenders[a].seg].store = r.store]
              /\ appenders' =
                    [appenders EXCEPT
                       ![a] = IF r.err # Nil
                                 THEN [@ EXCEPT !.pc = "returned", !.err = r.err]
                                 ELSE [@ EXCEPT !.pc = "stored", !.pos = r.pos]]
        /\ UNCHANGED <<config, activeSegment, opened, restarts, attempts, hist, snap,
                       lastOp, cstream, pstream, st, ix>>

(* s.index.Write(uint32(s.nextOffset - s.baseOffset), pos). *)
AppendIndex ==
    \E a \in Appenders :
        /\ appenders[a].pc = "stored"
        /\ \E w \in {indexWrite(segments[appenders[a].seg].index,
                                  Uint32(segments[appenders[a].seg].nextOffset
                                         - segments[appenders[a].seg].baseOffset),
                                  appenders[a].pos)} :
              /\ segments' = [segments EXCEPT ![appenders[a].seg].index = w.index]
              /\ appenders' =
                    [appenders EXCEPT
                       ![a] = IF w.err # Nil
                                 THEN [@ EXCEPT !.pc = "returned", !.err = w.err]
                                 ELSE [@ EXCEPT !.pc = "indexed"]]
        /\ UNCHANGED <<config, activeSegment, opened, restarts, attempts, hist, snap,
                       lastOp, cstream, pstream, st, ix>>

(* s.nextOffset++; return cur, nil. *)
AppendIncrement ==
    \E a \in Appenders :
        /\ appenders[a].pc = "indexed"
        /\ segments' = [segments EXCEPT ![appenders[a].seg].nextOffset = Uint64(@ + 1)]
        /\ appenders' =
              [appenders EXCEPT
                 ![a] = [@ EXCEPT !.pc = "returned", !.offset = appenders[a].cur]]
        /\ UNCHANGED <<config, activeSegment, opened, restarts, attempts, hist, snap,
                       lastOp, cstream, pstream, st, ix>>

(* Log.Append after segment.Append has returned: when the append succeeded  *)
(* and the active segment is maxed, the log takes its write lock (no        *)
(* appender is inside segment.Append) and installs a new segment.           *)
AppendRoll ==
    \E a \in Appenders :
        /\ appenders[a].pc = "returned"
        /\ \A b \in Appenders : ~InSegmentAppend(b)
        /\ IF appenders[a].err = Nil /\ IsMaxed(segments[activeSegment], config)
              THEN /\ segments' =
                        Append(segments,
                               newSegment(<< >>, << >>,
                                          segments[activeSegment].nextOffset, config))
                   /\ activeSegment' = Len(segments) + 1
              ELSE UNCHANGED <<segments, activeSegment>>
        /\ appenders' = [appenders EXCEPT ![a] = [@ EXCEPT !.pc = "done"]]
        /\ UNCHANGED <<config, opened, restarts, attempts, hist, snap, lastOp, cstream,
                       pstream, st, ix>>

(* A unary Produce RPC. *)
DoProduce ==
    \E subject \in Subjects, value \in Values, callerOffset \in CallerOffsets :
        LET Returned(r) ==
                /\ Produced(r, value)
                /\ lastOp' = Op("Produce", subject, value, r.hasResponse,
                                r.offset, NoRecord, r.err)
        IN /\ attempts < MaxAppends
           /\ Returned(Produce(segments, activeSegment, config, subject,
                               [value |-> value, offset |-> callerOffset]))
           /\ UNCHANGED <<config, opened, restarts, cstream, pstream, st, ix,
                       appenders>>

(* A unary Consume RPC. *)
DoConsume ==
    \E subject \in Subjects, off \in Offsets :
        /\ \E r \in {Consume(segments, subject, off)} :
              /\ segments' = r.segments
              /\ lastOp' = Op("Consume", subject, off, r.hasResponse,
                              NoOffset, r.record, r.err)
        /\ UNCHANGED <<config, activeSegment, opened, restarts, attempts, hist,
                       snap, cstream, pstream, st, ix,
                       appenders>>

(* Log.Close. *)
DoClose ==
    LET Closed(r) ==
            /\ segments' = r.segments
            /\ lastOp' = Op("Close", "", 0, FALSE, NoOffset, NoRecord, r.err)
    IN /\ opened
       /\ Closed(LogClose(segments, 1))
       /\ snap' = [valid |-> TRUE, reads |-> Reads(segments), next |-> NextAssigned]
       /\ opened' = FALSE
       /\ UNCHANGED <<config, activeSegment, restarts, attempts, hist, cstream,
                      pstream, st, ix,
                       appenders>>

(* NewLog on the directory of a closed log. *)
DoReopen ==
    LET Opened(l) == segments' = l.segments /\ activeSegment' = l.active
    IN /\ ~opened
       /\ restarts < MaxRestarts
       /\ Opened(NewLog(Dir(segments), config))
       /\ opened' = TRUE
       /\ restarts' = restarts + 1
       /\ lastOp' = Op("NewLog", "", 0, FALSE, NoOffset, NoRecord, Nil)
       /\ UNCHANGED <<config, attempts, hist, snap, cstream, pstream, st, ix,
                       appenders>>

(* A client opens a consume stream at offset k. *)
StartConsumeStream ==
    \E subject \in Subjects, k \in 0..MaxStreamStart :
        /\ cstream.state = "idle"
        /\ cstream' = [IdleStream EXCEPT !.state = "running", !.subject = subject,
                                         !.start = k, !.offset = k]
        /\ lastOp' = Op("StartConsumeStream", subject, k, FALSE, NoOffset, NoRecord, Nil)
        /\ UNCHANGED <<config, segments, activeSegment, opened, restarts, attempts,
                       hist, snap, pstream, st, ix,
                       appenders>>

(* The consume stream's loop runs one iteration. *)
StepConsumeStream ==
    \E sendOk \in BOOLEAN :
        /\ cstream.state = "running"
        /\ \E r \in {ConsumeStream(cstream, segments, sendOk)} :
              /\ cstream' = r.cstream
              /\ segments' = r.segments
              /\ lastOp' = Op("ConsumeStream", cstream.subject, cstream.offset,
                              Len(r.cstream.sent) > Len(cstream.sent), NoOffset,
                              NoRecord, r.cstream.err)
        /\ UNCHANGED <<config, activeSegment, opened, restarts, attempts, hist,
                       snap, pstream, st, ix,
                       appenders>>

(* The consume stream's context is cancelled. *)
CancelConsumeStream ==
    /\ cstream.state = "running"
    /\ ~cstream.cancelled
    /\ cstream' = [cstream EXCEPT !.cancelled = TRUE]
    /\ lastOp' = Op("Cancel", cstream.subject, 0, FALSE, NoOffset, NoRecord, Nil)
    /\ UNCHANGED <<config, segments, activeSegment, opened, restarts, attempts,
                   hist, snap, pstream, st, ix,
                       appenders>>

(* A client opens a produce stream. *)
StartProduceStream ==
    \E subject \in Subjects :
        /\ pstream.state = "idle"
        /\ pstream' = [IdleProducer EXCEPT !.state = "running", !.subject = subject]
        /\ lastOp' = Op("StartProduceStream", subject, 0, FALSE, NoOffset, NoRecord, Nil)
        /\ UNCHANGED <<config, segments, activeSegment, opened, restarts, attempts,
                       hist, snap, cstream, st, ix,
                       appenders>>

(* The produce stream's loop runs one iteration. *)
StepProduceStream ==
    \E recvOk \in BOOLEAN, value \in Values, callerOffset \in CallerOffsets,
       sendOk \in BOOLEAN :
        LET Iterated(r) ==
                /\ pstream' = r.pstream
                /\ Produced(r, value)
                /\ lastOp' = Op(IF recvOk THEN "ProduceStream" ELSE "Recv",
                                pstream.subject, value,
                                r.hasResponse, r.offset, NoRecord, r.pstream.err)
        IN /\ pstream.state = "running"
           /\ attempts < MaxAppends
           /\ Iterated(ProduceStream(pstream, segments, activeSegment, config, recvOk,
                                     [value |-> value, offset |-> callerOffset],
                                     sendOk))
           /\ UNCHANGED <<config, opened, restarts, cstream, st, ix,
                       appenders>>

Next ==
    \/ DoProduce
    \/ DoConsume
    \/ DoClose
    \/ DoReopen

Spec == Init /\ [][Next]_vars

NextProduce ==
    \/ DoProduce
    \/ StartProduceStream
    \/ StepProduceStream

SpecProduce == Init /\ [][NextProduce]_vars

NextStream ==
    \/ DoProduce
    \/ DoClose
    \/ StartConsumeStream
    \/ StepConsumeStream
    \/ CancelConsumeStream

SpecStream == Init /\ [][NextStream]_vars /\ WF_vars(StepConsumeStream)

NextStore ==
    \/ StoreAppend
    \/ StoreRead
    \/ StoreReadAt
    \/ StoreClose

SpecStore == Init /\ [][NextStore]_vars

NextIndex ==
    \/ IndexWrite
    \/ IndexRead
    \/ IndexClose
    \/ IndexReopen

SpecIndex == Init /\ [][NextIndex]_vars

NextClosedIndex ==
    \/ IndexWrite
    \/ IndexClose
    \/ IndexWriteAfterClose
    \/ IndexReadAfterClose

SpecClosedIndex == Init /\ [][NextClosedIndex]_vars

NextConcurrent ==
    \/ AppendBegin
    \/ AppendStore
    \/ AppendIndex
    \/ AppendIncrement
    \/ AppendRoll

SpecConcurrent == Init /\ [][NextConcurrent]_vars

----------------------------------------------------------------------------
(* Properties *)

HistOffsets == { hist[i].offset : i \in 1..Len(hist) }

(* C1: read-your-writes. The i-th successful append (0-based) to a fresh    *)
(* log is assigned offset InitialOffset + i, and while the log is open a    *)
(* read of that offset returns the appended value with the assigned offset, *)
(* whatever offset the caller had put in the record.                        *)
C1_ReadYourWrites ==
    opened =>
        \A i \in 1..Len(hist) :
            /\ hist[i].offset = config.InitialOffset + (i - 1)
            /\ ReadResult(LogRead(segments, hist[i].offset))
                 = [record |-> [value |-> hist[i].value, offset |-> hist[i].offset],
                    err |-> Nil]

(* A Consume returned the third record appended, held by a later segment   *)
(* than the first.                                                         *)
C1_Witness ==
    /\ opened
    /\ Len(hist) >= 3
    /\ FindSegment(segments, hist[3].offset, 1) >= 2
    /\ lastOp.op = "Consume"
    /\ lastOp.arg = hist[3].offset
    /\ lastOp.hasResponse
    /\ lastOp.record = [value |-> <<7>>, offset |-> hist[3].offset]

(* C2: the offsets returned by successive successful appends increase by    *)
(* exactly 1, across segment roll-overs (and restarts) too.                 *)
C2_OffsetsGapFree ==
    \A i \in 1..(Len(hist) - 1) : hist[i + 1].offset = hist[i].offset + 1

(* Three appends succeeded and the log rolled twice. *)
C2_Witness ==
    /\ Len(hist) >= 3
    /\ Len(segments) >= 3
    /\ lastOp.op = "Produce"
    /\ lastOp.offset = hist[Len(hist)].offset

(* C3: a Consume of an offset no append was assigned fails with             *)
(* ErrOffsetOutOfRange and carries no record; Consume hands the log's       *)
(* error to the caller as it is.                                            *)
C3_OutOfRange ==
    (lastOp.op = "Consume" /\ lastOp.arg \notin HistOffsets) =>
        /\ lastOp.err = ErrOffsetOutOfRange
        /\ ~lastOp.hasResponse
        /\ lastOp.record = NoRecord

(* A Consume of the offset after the last appended one was refused. *)
C3_Witness ==
    /\ Len(hist) >= 1
    /\ lastOp.op = "Consume"
    /\ lastOp.arg = hist[Len(hist)].offset + 1
    /\ lastOp.err = ErrOffsetOutOfRange

(* C4: restart recovery. After Close and NewLog on the same directory,      *)
(* every offset reads as it did before the Close, and the first append      *)
(* that succeeds after the restart is assigned the offset after the last    *)
(* one assigned before the Close.                                           *)
C4_RestartRecovery ==
    /\ (opened /\ snap.valid) => Reads(segments) = snap.reads
    /\ (lastOp.op = "Produce" /\ lastOp.afterReopen /\ lastOp.err = Nil) =>
           lastOp.offset = snap.next

(* A log of two segments and two records was reopened; then an append       *)
(* succeeded as the first after the restart.                                *)
C4_Witness ==
    /\ opened
    /\ restarts >= 1
    /\ Len(hist) >= 3
    /\ Len(segments) >= 2
    /\ lastOp.op = "Produce"
    /\ lastOp.afterReopen
    /\ lastOp.err = Nil

C6_MaxedNotWritten ==
    [][ \A i \in 1..Len(segments) :
          (/\ opened /\ opened'
           /\ \/ segments[i].store.size >= config.MaxStoreBytes
              \/ segments[i].index.size >= config.MaxIndexBytes)
          => /\ segments'[i].store.file = segments[i].store.file
             /\ segments'[i].store.size = segments[i].store.size
             /\ segments'[i].index = segments[i].index ]_vars

(* Whether the consume stream has sent the record of offset k. *)
Sent(k) == \E i \in 1..Len(cstream.sent) : cstream.sent[i].offset = k

(* The stream runs, uncancelled, at an offset that has been appended and    *)
(* has not sent that record.                                                *)
Due ==
    /\ cstream.state = "running"
    /\ ~cstream.cancelled
    /\ cstream.offset \in HistOffsets
    /\ ~Sent(cstream.offset)

(* C7: ConsumeStream is a tailing consumer. An iteration that finds the     *)
(* offset out of range leaves the stream running at the same offset, to     *)
(* poll it again; an iteration whose Read or Send fails otherwise ends the  *)
(* stream with that error; the stream leaves an offset only by sending the  *)
(* record of that offset; and a stream whose context is not cancelled does  *)
(* not stay for ever at an offset that has been appended: the record is     *)
(* eventually sent, unless the stream ends with an error.                   *)
C7_TailingConsumer ==
    /\ [][ (lastOp'.op = "ConsumeStream" /\ ~cstream.cancelled) =>
             /\ (cstream.offset \notin HistOffsets) =>
                    /\ lastOp'.err = Nil
                    /\ cstream'.state = "running"
                    /\ cstream'.offset = cstream.offset
                    /\ cstream'.sent = cstream.sent
                    /\ cstream'.err = Nil
             /\ (cstream.offset \in HistOffsets /\ ~opened) =>
                    /\ cstream'.state = "done"
                    /\ cstream'.err = ErrClosed
                    /\ cstream'.sent = cstream.sent
             /\ (cstream.offset \in HistOffsets /\ opened) =>
                    \/ /\ cstream'.state = "running"
                       /\ cstream'.err = Nil
                       /\ Len(cstream'.sent) = Len(cstream.sent) + 1
                       /\ cstream'.sent[Len(cstream'.sent)].offset = cstream.offset
                    \/ /\ cstream'.state = "done"
                       /\ cstream'.err = ErrSend
                       /\ cstream'.sent = cstream.sent ]_vars
    /\ [][ (cstream.state = "running" /\ cstream'.offset # cstream.offset) =>
             /\ cstream.offset \in HistOffsets
             /\ Len(cstream'.sent) = Len(cstream.sent) + 1
             /\ cstream'.sent[Len(cstream'.sent)].offset = cstream.offset ]_vars
    /\ []<>(~Due)

(* The stream polled an offset that was out of range, and sent its record   *)
(* once it had been appended.                                               *)
C7_Witness ==
    /\ cstream.state = "running"
    /\ cstream.polled
    /\ ~cstream.cancelled
    /\ Len(cstream.sent) >= 1
    /\ lastOp.op = "ConsumeStream"

(* C8: a ConsumeStream started at offset k has sent the records of offsets  *)
(* k, k+1, ... in this order, each once, with the values appended at these  *)
(* offsets, and its request offset is k plus the number of records sent.    *)
C8_StreamInOrder ==
    cstream.state # "idle" =>
        /\ cstream.offset = cstream.start + Len(cstream.sent)
        /\ \A i \in 1..Len(cstream.sent) :
              /\ cstream.sent[i].offset = cstream.start + (i - 1)
              /\ \E j \in 1..Len(hist) :
                    hist[j] = [value |-> cstream.sent[i].value,
                               offset |-> cstream.sent[i].offset]

(* A stream started at offset 1 has sent three records, from two segments. *)
C8_Witness ==
    /\ cstream.start = 1
    /\ Len(cstream.sent) >= 3
    /\ Len(segments) >= 2

(* C9: once its context is cancelled the ConsumeStream loop terminates,     *)
(* with a nil error, also when it was polling an offset out of range; and   *)
(* no iteration of the loop changes the log.                                *)
C9_CancelTerminates ==
    /\ cstream.cancelled ~> (cstream.state = "done" /\ cstream.err = Nil)
    /\ [][ lastOp'.op = "ConsumeStream" =>
              UNCHANGED <<config, segments, activeSegment, opened>> ]_vars

(* A stream that was polling an offset out of range was cancelled and       *)
(* returned.                                                                *)
C9_Witness ==
    /\ cstream.state = "done"
    /\ cstream.cancelled
    /\ cstream.polled
    /\ cstream.offset \notin HistOffsets
    /\ lastOp.op = "ConsumeStream"

(* C10: a Produce, unary or on a ProduceStream, from a subject the          *)
(* authorizer rejects returns the authorizer's error and no response, and   *)
(* leaves the log as it was: no segment changes, no offset is assigned.     *)
C10_UnauthorizedProduce ==
    [][ (lastOp'.op \in {"Produce", "ProduceStream"}
         /\ Authorize(lastOp'.subject, objectWildcard, produceAction) # Nil) =>
           /\ lastOp'.err = Authorize(lastOp'.subject, objectWildcard, produceAction)
           /\ lastOp'.err = PermissionDenied
           /\ ~lastOp'.hasResponse
           /\ lastOp'.offset = NoOffset
           /\ UNCHANGED <<config, segments, activeSegment, opened, hist>> ]_vars

(* A ProduceStream of a rejected subject ended with the authorizer's        *)
(* error, on a log that holds records.                                      *)
C10_Witness ==
    /\ lastOp.op = "ProduceStream"
    /\ lastOp.subject = "nobody"
    /\ lastOp.err = PermissionDenied
    /\ pstream.state = "done"
    /\ pstream.err = PermissionDenied
    /\ Len(hist) >= 1

(* The appenders whose Log.Append has returned an offset. *)
Returned == { a \in Appenders : appenders[a].pc = "done" /\ appenders[a].err = Nil }

(* C11: concurrent appends. When no Log.Append is in progress, the offsets  *)
(* returned to the concurrent callers are pairwise distinct, they are the   *)
(* range that starts at InitialOffset without a gap, and a read of each     *)
(* returned offset gives the record of the caller that was given it.        *)
C11_ConcurrentAppends ==
    (\A a \in Appenders : appenders[a].pc \in {"idle", "done"}) =>
        /\ \A a, b \in Returned :
              a # b => appenders[a].offset # appenders[b].offset
        /\ { appenders[a].offset : a \in Returned }
              = config.InitialOffset..(config.InitialOffset + Cardinality(Returned) - 1)
        /\ \A a \in Returned :
              ReadResult(LogRead(segments, appenders[a].offset))
                 = [record |-> [value |-> appenders[a].value,
                                offset |-> appenders[a].offset],
                    err |-> Nil]

(* C12: store.Append returns the size of the store before the call as the   *)
(* position and len(p) + 8 as the number of bytes written, and the size     *)
(* grows by that number; so the i-th of appends of equal payloads of        *)
(* length w - 8 to an empty store has position + written = w * i.           *)
C12_StoreAppendAccounting ==
    /\ \A i \in 1..Len(st.frames) :
          /\ st.frames[i].pos = st.frames[i].before
          /\ st.frames[i].n = Len(st.frames[i].p) + lenWidth
          /\ st.frames[i].before
                = IF i = 1 THEN 0 ELSE st.frames[i - 1].before + st.frames[i - 1].n
          /\ (\A j \in 1..i : Len(st.frames[j].p) = Len(st.frames[i].p)) =>
                st.frames[i].pos + st.frames[i].n = (Len(st.frames[i].p) + lenWidth) * i
    /\ st.s.size = IF Len(st.frames) = 0 THEN 0
                   ELSE st.frames[Len(st.frames)].pos + st.frames[Len(st.frames)].n

(* The third append of the same three-byte payload ended at 3 * 11. *)
C12_Witness ==
    /\ Len(st.frames) = 3
    /\ \A i \in 1..3 : st.frames[i].p = <<104, 105, 33>>
    /\ st.op.op = "Append"
    /\ st.op.err = Nil
    /\ st.op.pos + st.op.n = 33

(* C13: store round trip. While the store is open, store.Read at the        *)
(* position an append returned gives the payload of that append, with no    *)
(* flush or close needed between the append and the read.                   *)
C13_StoreRoundTrip ==
    ~st.s.closed =>
        \A i \in 1..Len(st.frames) :
            /\ storeRead(st.s, st.frames[i].pos).p = st.frames[i].p
            /\ storeRead(st.s, st.frames[i].pos).err = Nil

(* A Read that followed an Append at once returned the second payload. *)
C13_Witness ==
    /\ Len(st.frames) >= 2
    /\ st.op.op = "Read"
    /\ st.op.after = "Append"
    /\ st.op.arg = st.frames[2].pos
    /\ st.op.err = Nil
    /\ st.op.p = <<104, 105, 33>>

(* C14: frame integrity. For every appended payload p with position pos,    *)
(* ReadAt of 8 bytes at pos gives 8 bytes whose big-endian value is len(p), *)
(* ReadAt of len(p) bytes at pos + 8 gives p with n = len(p), and the next  *)
(* frame starts at pos + 8 + len(p).                                        *)
C14_FrameIntegrity ==
    ~st.s.closed =>
        \A i \in 1..Len(st.frames) :
            /\ storeReadAt(st.s, lenWidth, st.frames[i].pos).err = Nil
            /\ storeReadAt(st.s, lenWidth, st.frames[i].pos).n = lenWidth
            /\ Len(storeReadAt(st.s, lenWidth, st.frames[i].pos).bytes) = lenWidth
            /\ Uint(storeReadAt(st.s, lenWidth, st.frames[i].pos).bytes)
                  = Len(st.frames[i].p)
            /\ storeReadAt(st.s, Len(st.frames[i].p), st.frames[i].pos + lenWidth)
                  = [store |-> st.s, n |-> Len(st.frames[i].p),
                     bytes |-> st.frames[i].p, err |-> Nil]
            /\ i < Len(st.frames) =>
                  st.frames[i + 1].pos = st.frames[i].pos + lenWidth + Len(st.frames[i].p)

(* A ReadAt returned the three bytes of the payload of the second frame. *)
C14_Witness ==
    /\ Len(st.frames) >= 2
    /\ st.op.op = "ReadAt"
    /\ st.op.pos = st.frames[2].pos + lenWidth
    /\ st.op.n = 3
    /\ st.op.p = <<104, 105, 33>>
    /\ st.op.err = Nil

(* C15: store writes are buffered. After a successful Append the appended   *)
(* bytes are not yet in the file, and a Close that follows it makes the     *)
(* file on disk strictly longer than it was after the Append.               *)
C15_BufferedUntilClose ==
    [][ (st.op.op = "Append" /\ st.op.err = Nil /\ st'.op.op = "Close") =>
           /\ Len(st.s.file) < st.s.size
           /\ Len(st'.s.file) > Len(st.s.file) ]_vars

(* C16: index.Read(-1) returns EOF on an index of size 0, and on an index   *)
(* that holds entries it returns the entry written last, which is the       *)
(* entry number size / entWidth - 1.                                        *)
C16_ReadLast ==
    ~ix.i.closed =>
        IF ix.i.size = 0
           THEN indexRead(ix.i, -1).err = EOF
           ELSE /\ indexRead(ix.i, -1)
                     = [out |-> ix.written[Len(ix.written)].off,
                        pos |-> ix.written[Len(ix.written)].pos,
                        err |-> Nil]
                /\ indexRead(ix.i, -1) = indexRead(ix.i, (ix.i.size \div entWidth) - 1)
                /\ (ix.i.size \div entWidth) = Len(ix.written)

(* Read(-1) returned the entry (300, 70000), written after another one. *)
C16_Witness ==
    /\ Len(ix.written) >= 2
    /\ ix.op = IndexOp("Read", -1, 300, 70000, Nil)

(* C17: index.Write succeeds exactly when size + 12 <= len(mmap). When it   *)
(* succeeds the entry (off, pos) is at bytes [size, size + 12), size has    *)
(* grown by 12 and the bytes before it are unchanged; otherwise it fails    *)
(* with EOF and the index is unchanged.                                     *)
C17_IndexWrite ==
    [][ ix'.op.op = "Write" =>
           IF ix.i.size + 12 <= Len(ix.i.mmap)
              THEN /\ ix'.op.err = Nil
                   /\ ix'.i.size = ix.i.size + 12
                   /\ Uint(SubSeq(ix'.i.mmap, ix.i.size + 1, ix.i.size + 4)) = ix'.op.off
                   /\ Uint(SubSeq(ix'.i.mmap, ix.i.size + 5, ix.i.size + 12)) = ix'.op.pos
                   /\ SubSeq(ix'.i.mmap, 1, ix.i.size) = SubSeq(ix.i.mmap, 1, ix.i.size)
                   /\ Len(ix'.i.mmap) = Len(ix.i.mmap)
              ELSE /\ ix'.op.err = EOF
                   /\ ix'.i = ix.i ]_vars

(* A Write was refused on an index of 24 bytes mapped at 30. *)
C17_Witness ==
    /\ ix.op.op = "Write"
    /\ ix.op.err = EOF
    /\ ix.i.size = 24
    /\ Len(ix.i.mmap) = 30

(* C18: truncation on close. While an index is open its file and its        *)
(* mapping have length MaxIndexBytes; after Close the file has the length   *)
(* size, which is 12 times the number of entries written.                   *)
C18_TruncateOnClose ==
    /\ ~ix.i.closed =>
          /\ Len(ix.i.mmap) = config.MaxIndexBytes
          /\ ix.i.fileLen = config.MaxIndexBytes
    /\ ix.i.closed =>
          /\ ix.i.fileLen = ix.i.size
          /\ Len(indexFile(ix.i)) = ix.i.size
          /\ ix.i.size = Len(ix.written) * 12

(* An index that was reopened and written to again was closed with three    *)
(* entries in a file of 36 bytes.                                           *)
C18_Witness ==
    /\ ix.i.closed
    /\ ix.reopens >= 1
    /\ Len(ix.written) = 3
    /\ ix.i.fileLen = 36
    /\ ix.i.fileLen < config.MaxIndexBytes + 1
    /\ ix.op.op = "Close"

(* C19: the segments of a log are contiguous: each segment's baseOffset is  *)
(* the nextOffset of the segment before it; the last segment is the active  *)
(* one, and a Produce changes no other segment.                             *)
C19_SegmentsContiguous ==
    /\ [](/\ activeSegment = Len(segments)
          /\ \A i \in 1..(Len(segments) - 1) :
                segments[i + 1].baseOffset = segments[i].nextOffset)
    /\ [][ lastOp'.op = "Produce" =>
              /\ Len(segments') >= Len(segments)
              /\ \A i \in 1..(Len(segments) - 1) : segments'[i] = segments[i] ]_vars

(* A log of three segments that was reopened took another record. *)
C19_Witness ==
    /\ Len(segments) >= 3
    /\ restarts >= 1
    /\ lastOp.op = "Produce"
    /\ lastOp.afterReopen
    /\ lastOp.err = Nil

(* C20: in every segment, new, reopened or after appends that succeeded or  *)
(* failed, nextOffset = baseOffset + index.size / 12 and index.size is a    *)
(* multiple of 12.                                                          *)
C20_NextOffsetFromIndex ==
    \A i \in 1..Len(segments) :
        /\ segments[i].nextOffset = segments[i].baseOffset + segments[i].index.size \div 12
        /\ segments[i].index.size % 12 = 0

(* An append failed on a reopened segment that holds two records. *)
C20_Witness ==
    /\ restarts >= 1
    /\ opened
    /\ lastOp.op = "Produce"
    /\ lastOp.err = EOF
    /\ segments[activeSegment].index.size = 24
    /\ segments[activeSegment].nextOffset = segments[activeSegment].baseOffset + 2

(* C21: within every segment the index entries, read in order, have         *)
(* strictly increasing relative offsets and strictly increasing positions,  *)
(* whatever was appended, empty payloads included.                          *)
C21_IndexStrictlyIncreasing ==
    \A i \in 1..Len(segments) :
        \A k \in 0..((segments[i].index.size \div entWidth) - 2) :
            /\ indexRead(segments[i].index, k).err = Nil
            /\ indexRead(segments[i].index, k + 1).err = Nil
            /\ indexRead(segments[i].index, k).out
                  < indexRead(segments[i].index, k + 1).out
            /\ indexRead(segments[i].index, k).pos
                  < indexRead(segments[i].index, k + 1).pos

(* A segment holds three entries, the first of a record with an empty       *)
(* payload, and has just taken an append.                                   *)
C21_Witness ==
    /\ Len(hist) >= 3
    /\ hist[1].value = << >>
    /\ segments[1].index.size = 3 * entWidth
    /\ indexRead(segments[1].index, 2).out = 2
    /\ lastOp.op = "Produce"
    /\ lastOp.err = Nil

(* C22: a segment whose index has no room for another entry is maxed: in    *)
(* every reachable state, index.size + 12 > MaxIndexBytes implies IsMaxed,  *)
(* so an append to a segment that is not maxed does not fail with EOF.      *)
C22_FullIndexIsMaxed ==
    /\ [](\A i \in 1..Len(segments) :
             segments[i].index.size + entWidth > config.MaxIndexBytes
                => IsMaxed(segments[i], config))
    /\ [][ (lastOp'.op = "Produce" /\ lastOp'.err = EOF) =>
              IsMaxed(segments[activeSegment], config) ]_vars

(* C23: for every input other than -1, index.Read returns an entry only     *)
(* when 0 <= in < size / 12, and returns EOF for every in >= size / 12 and  *)
(* every in < -1, inputs beyond 32 bits included.                           *)
C23_ReadOutOfRange ==
    ~ix.i.closed =>
        \A in \in ReadInputs \ {-1} :
            /\ indexRead(ix.i, in).err = Nil =>
                  (0 <= in /\ in < ix.i.size \div entWidth)
            /\ (in >= ix.i.size \div entWidth \/ in < -1) =>
                  indexRead(ix.i, in).err = EOF

(* C24: a successful index.Read(in) with in other than -1 returns out = in, *)
(* whatever index.Write calls came before it.                               *)
C24_OutEqualsIn ==
    (ix.op.op = "Read" /\ ix.op.err = Nil /\ ix.op.in # -1) => ix.op.off = ix.op.in

(* C25: the calls on a store exclude each other, so in every interleaving   *)
(* of Append, Read, ReadAt and Close the frames the appends returned are    *)
(* pairwise disjoint and cover the bytes from 0 to the store's size, and a  *)
(* Read at the position of a completed Append returns that append's whole   *)
(* payload (or, on a store closed in between, an error and no bytes).       *)
C25_FramesTile ==
    /\ \A i, j \in 1..Len(st.frames) :
          i < j => st.frames[i].pos + st.frames[i].n <= st.frames[j].pos
    /\ UNION { st.frames[i].pos..(st.frames[i].pos + st.frames[i].n - 1) :
                  i \in 1..Len(st.frames) }
          = 0..(st.s.size - 1)
    /\ \A i \in 1..Len(st.frames) :
          (st.op.op = "Read" /\ st.op.arg = st.frames[i].pos) =>
              \/ st.op.err = Nil /\ st.op.p = st.frames[i].p
              \/ st.s.closed /\ st.op.err # Nil /\ st.op.p = << >>

(* A Read between appends returned the first of three different payloads. *)
C25_Witness ==
    /\ Len(st.frames) = 3
    /\ st.frames[1].p = <<7>>
    /\ st.frames[2].p = << >>
    /\ st.frames[3].p = <<104, 105, 33>>
    /\ st.op.op = "Read"
    /\ st.op.arg = 0
    /\ st.op.err = Nil
    /\ st.op.p = <<7>>
    /\ st.s.size = 9 + 8 + 11

(* C26: a write or a read on an index after its Close fails with an error   *)
(* and changes neither the size nor an entry of the index.                  *)
C26_ClosedIndexRefuses ==
    [][ (ix.i.closed /\ ix'.op.op \in {"Write", "Read"}) =>
           /\ ix'.op.err # Nil
           /\ ix'.i = ix.i ]_vars

(* C27: segment.Read(off) returns a record only when                        *)
(* baseOffset <= off < nextOffset, and then the record's offset is off; for *)
(* every other off, off = baseOffset - 1 included, it returns an error.     *)
C27_SegmentReadInRange ==
    opened =>
        \A i \in 1..Len(segments) :
            \A off \in {Uint64(segments[i].baseOffset - 1)}
                          \cup (segments[i].baseOffset..(segments[i].nextOffset + 1)) :
                /\ segmentRead(segments[i], off).err = Nil =>
                      /\ segments[i].baseOffset <= off
                      /\ off < segments[i].nextOffset
                      /\ segmentRead(segments[i], off).record.offset = off
                /\ ~(segments[i].baseOffset <= off /\ off < segments[i].nextOffset) =>
                      segmentRead(segments[i], off).err # Nil

(* C28: in every segment the store holds as many frames as the index holds  *)
(* entries, and entry k holds the position at which the k-th frame starts;  *)
(* an append that fails leaves no frame without an entry.                   *)
C28_FramesMatchEntries ==
    \A i \in 1..Len(segments) :
        /\ Len(FrameStarts(segments[i].store.file))
              = segments[i].index.size \div entWidth
        /\ \A k \in 1..(segments[i].index.size \div entWidth) :
              /\ k <= Len(FrameStarts(segments[i].store.file))
              /\ indexRead(segments[i].index, k - 1).pos
                    = FrameStarts(segments[i].store.file)[k]

(* C29: a Consume, unary or on a ConsumeStream, from a subject the          *)
(* authorizer rejects for the consume action ends with the authorizer's     *)
(* error and delivers no record: the log is not read for that subject.      *)
C29_UnauthorizedConsume ==
    (lastOp.op \in {"Consume", "ConsumeStream"}
     /\ Authorize(lastOp.subject, objectWildcard, consumeAction) # Nil) =>
        /\ lastOp.err = PermissionDenied
        /\ ~lastOp.hasResponse

(* C30: the store's size is the number of bytes written to it, in the file  *)
(* and in the buffer, in every reachable state; an Append that returns an   *)
(* error has added no byte, and the frame of an Append that succeeded can   *)
(* be read.                                                                 *)
C30_SizeCountsBytes ==
    /\ st.s.size = Len(st.s.file) + Len(st.s.buf)
    /\ ~st.s.closed =>
          \A i \in 1..Len(st.frames) :
              storeRead(st.s, st.frames[i].pos).err = Nil

====
